---- MODULE Spec2Model ----
(***************************************************************************)
(* Model of the lotus sealing pipeline poller (provider/lpseal/poller.go)  *)
(* and of the spread window selector SpreadWS.                             *)
(*                                                                         *)
(* The poller part is a state machine over the sectors_sdr_pipeline table, *)
(* the chain, the harmonytask registration handles and the RunPoller loop  *)
(* of every poller process.  One poll is cut at its suspension points: the *)
(* load query, the evaluation of one loaded record, and the wait inside    *)
(* Promise.Val.                                                            *)
(***************************************************************************)
EXTENDS Integers, Sequences, FiniteSets, TLC

VARIABLES
    rows,       \* sectors_sdr_pipeline: SectorNumber -> row
    execA,      \* message_waits has an executed row for precommit_msg_cid
    pciEpoch,   \* PreCommitEpoch of the on-chain precommit info, NoEpoch if absent
    execB,      \* message_waits has an executed row for commit_msg_cid
    si,         \* on-chain sector info is present
    height,     \* height of the chain head
    handles,    \* s.pollers[i].IsSet()
    nextId,     \* next harmonytask id
    cancelled,  \* ctx.Done() is closed
    pc,         \* per poller: position in RunPoller / poll
    tasks,      \* per poller: rows of `tasks` not yet visited by the loop of poll
    ts,         \* per poller: last value of `ts` read in the running poll
    perr,       \* per poller: poll returns a non-nil error
    last,       \* observation of the most recent poller step
    faults,     \* the data store and the chain node may fail a call
    sched,      \* assigner: the inputs of a pass (windows, workers, requests)
    queue,      \* assigner: sh.SchedQueue, a sequence of requests
    todo,       \* assigner: windows[w].Todo
    placed,     \* assigner: the placements of the pass, in order
    scheduled,  \* assigner: return value of the last SpreadWS pass
    apc         \* assigner: "ready" before the pass, "done" after it

pollerVars == <<rows, execA, pciEpoch, execB, si, height, handles, nextId,
                cancelled, pc, tasks, ts, perr, last, faults>>
assignVars == <<sched, queue, todo, placed, scheduled, apc>>
vars == <<pollerVars, assignVars>>

----------------------------------------------------------------------------
(* Bounds and program constants *)

MaxHeight == 4
ChallengeDelay == 1

pollerSDR == 0
pollerTrees == 1
pollerPrecommitMsg == 2
pollerPoRep == 3
pollerCommitMsg == 4
numPollers == 5
seedEpochConfidence == 3

Null == 0
NoEpoch == -1

MaxNeed == 1
MaxAlloc == 1
WorkerTotal == 1
MaxInt == 1000000
NoWindow == -1

Records == {1, 2}
Pollers == {1, 2}
Stages == 0 .. (numPollers - 1)

----------------------------------------------------------------------------
(* pollTask: one row of sectors_sdr_pipeline as poll selects it *)

NewRow(n) ==
    [SectorNumber |-> n,
     TaskSDR |-> Null, AfterSDR |-> FALSE,
     TaskTreeD |-> Null, AfterTreeD |-> FALSE,
     TaskTreeC |-> Null, AfterTreeC |-> FALSE,
     TaskTreeR |-> Null, AfterTreeR |-> FALSE,
     TaskPrecommitMsg |-> Null, AfterPrecommitMsg |-> FALSE,
     AfterPrecommitMsgSuccess |-> FALSE, SeedEpoch |-> NoEpoch,
     TaskPoRep |-> Null, PoRepProof |-> 0, AfterPoRep |-> FALSE,
     TaskCommitMsg |-> Null, AfterCommitMsg |-> FALSE,
     AfterCommitMsgSuccess |-> FALSE,
     Failed |-> FALSE]

NoLast ==
    [p |-> 0, kind |-> "none", rec |-> 0, ts |-> NoEpoch, prevTs |-> NoEpoch,
     seed |-> NoEpoch, claims |-> {}, upd |-> {}, api |-> {}, errs |-> {},
     loaded |-> {}, calls |-> <<>>]

----------------------------------------------------------------------------
(* The conditional UPDATE statements of the claim callbacks.  Each returns *)
(* the number of rows affected and the row as the statement leaves it.     *)

ExecClaimSDR(row, id) ==
    IF row.TaskSDR = Null
      THEN [n |-> 1, row |-> [row EXCEPT !.TaskSDR = id]]
      ELSE [n |-> 0, row |-> row]

(* the UPDATE of the trees claim setting and testing task_id_tree_d only *)
ExecClaimTreeDOnly(row, id) ==
    IF row.AfterSDR /\ row.TaskTreeD = Null
      THEN [n |-> 1, row |-> [row EXCEPT !.TaskTreeD = id]]
      ELSE [n |-> 0, row |-> row]

ExecClaimTrees(row, id) ==
    IF row.AfterSDR /\ row.TaskTreeD = Null /\ row.TaskTreeC = Null
                    /\ row.TaskTreeR = Null
      THEN [n |-> 1, row |-> [row EXCEPT !.TaskTreeD = id, !.TaskTreeC = id,
                                         !.TaskTreeR = id]]
      ELSE [n |-> 0, row |-> row]

ExecClaimPrecommitMsg(row, id) ==
    IF row.TaskPrecommitMsg = Null /\ row.AfterTreeR /\ row.AfterTreeD
      THEN [n |-> 1, row |-> [row EXCEPT !.TaskPrecommitMsg = id]]
      ELSE [n |-> 0, row |-> row]

(* the UPDATE of the PoRep claim without `and task_id_porep is null` *)
ExecClaimPoRepUnguarded(row, id) ==
    [n |-> 1, row |-> [row EXCEPT !.TaskPoRep = id]]

ExecClaimPoRep(row, id) ==
    IF row.TaskPoRep = Null
      THEN [n |-> 1, row |-> [row EXCEPT !.TaskPoRep = id]]
      ELSE [n |-> 0, row |-> row]

ExecClaimCommitMsg(row, id) ==
    IF row.TaskCommitMsg = Null
      THEN [n |-> 1, row |-> [row EXCEPT !.TaskCommitMsg = id]]
      ELSE [n |-> 0, row |-> row]

(* the landing update of message A without `and seed_epoch is NULL` *)
ExecLandedAOverwrites(row, randHeight) ==
    [n |-> 1, row |-> [row EXCEPT !.SeedEpoch = randHeight,
                                  !.AfterPrecommitMsgSuccess = TRUE]]

(* UPDATE ... SET seed_epoch, after_precommit_msg_success WHERE seed_epoch is NULL *)
ExecLandedA(row, randHeight) ==
    IF row.SeedEpoch = NoEpoch
      THEN [n |-> 1, row |-> [row EXCEPT !.SeedEpoch = randHeight,
                                         !.AfterPrecommitMsgSuccess = TRUE]]
      ELSE [n |-> 0, row |-> row]

(* the landing update of message B matching no row *)
ExecLandedBNoRow(row) == [n |-> 0, row |-> row]

(* UPDATE ... SET after_commit_msg_success = true WHERE after_commit_msg_success = false *)
ExecLandedB(row) ==
    IF row.AfterCommitMsgSuccess = FALSE
      THEN [n |-> 1, row |-> [row EXCEPT !.AfterCommitMsgSuccess = TRUE]]
      ELSE [n |-> 0, row |-> row]

(* a callback that commits whatever the row count *)
ShouldCommitAlways(n) == TRUE

(* The callback's verdict on the row count: shouldCommit iff n = 1. *)
ShouldCommit(n) == n = 1

(* harmonytask.AddTaskFunc: mint an id, run the callback in a transaction, *)
(* commit the registration and the update iff the callback says so.        *)
(* c is the running result of one record's evaluation.                     *)
(* c.ans.claim: whether tx.Exec of the callback succeeds.                   *)
AddTask(c, r, stage, res) ==
    IF c.ans.claim /\ ShouldCommit(res.n)
      THEN [c EXCEPT !.rows[r] = res.row,
                     !.nextId = c.nextId + 1,
                     !.claims = c.claims \cup {[rec |-> r, stage |-> stage, n |-> res.n,
                                                err |-> FALSE]}]
      ELSE [c EXCEPT !.claims = c.claims \cup
                        {[rec |-> r, stage |-> stage,
                          n |-> IF c.ans.claim THEN res.n ELSE 0,
                          err |-> ~c.ans.claim]},
                     !.errs = c.errs \cup {"claim"}]

(* A stage check of poll has been called. *)
Called(c, name) == [c EXCEPT !.calls = Append(c.calls, name)]

----------------------------------------------------------------------------
(* The stage checks of poll, applied to the loaded copy `task` of a row. *)

PollStartSDR(c, task) ==
    IF task.TaskSDR = Null /\ handles[pollerSDR]
      THEN AddTask(c, task.SectorNumber, pollerSDR,
                   ExecClaimSDR(c.rows[task.SectorNumber], c.nextId))
      ELSE c

PollStartSDRTrees(c, task) ==
    IF task.TaskTreeD = Null /\ task.TaskTreeC = Null /\ task.TaskTreeR = Null
       /\ handles[pollerTrees] /\ task.AfterSDR
      THEN AddTask(c, task.SectorNumber, pollerTrees,
                   ExecClaimTrees(c.rows[task.SectorNumber], c.nextId))
      ELSE c

(* The condition under which pollStartPrecommitMsg calls Val on its handle. *)
PrecommitMsgReady(task) ==
    task.TaskPrecommitMsg = Null /\ task.AfterTreeR /\ task.AfterTreeD

(* Whether pollStartPrecommitMsg has to wait inside Val: it does not test IsSet. *)
WaitsInVal(task) == PrecommitMsgReady(task) /\ ~handles[pollerPrecommitMsg]

(* Evaluated only once Val has returned the handle. *)
PollStartPrecommitMsg(c, task) ==
    IF PrecommitMsgReady(task)
      THEN AddTask(c, task.SectorNumber, pollerPrecommitMsg,
                   ExecClaimPrecommitMsg(c.rows[task.SectorNumber], c.nextId))
      ELSE c

(* the landing check going on without `if pci != nil` *)
PciPresentAlways(r) == TRUE

(* if pci != nil *)
PciPresent(r) == pciEpoch[r] # NoEpoch

(* c.ans: the outcome of each call the check makes with ctx (join query, *)
(* chain query, update).  A failed join query is logged and leaves         *)
(* execResult empty; a failed chain query or update is returned as error.  *)
PollPrecommitMsgLanded(c, task) ==
    LET r == task.SectorNumber
        q == [c EXCEPT !.api = c.api \cup {"message_waits A"}]
    IN
    IF task.TaskPrecommitMsg # Null /\ ~task.AfterPrecommitMsgSuccess
      THEN IF ~c.ans.joinA
             THEN [q EXCEPT !.errs = c.errs \cup {"joinA"}]
           ELSE IF ~execA[r] THEN q
           ELSE IF ~c.ans.pci
             THEN [q EXCEPT !.api = q.api \cup {"StateSectorPreCommitInfo"},
                            !.ret = "pci"]
           ELSE IF ~PciPresent(r)
             THEN [q EXCEPT !.api = q.api \cup {"StateSectorPreCommitInfo"}]
           ELSE IF ~c.ans.updA
             THEN [q EXCEPT !.api = q.api \cup {"StateSectorPreCommitInfo"},
                            !.ret = "updA"]
           ELSE LET res == ExecLandedA(c.rows[r], pciEpoch[r] + ChallengeDelay) IN
                [q EXCEPT !.api = q.api \cup {"StateSectorPreCommitInfo"},
                          !.rows[r] = res.row,
                          !.upd = IF res.n = 1 THEN c.upd \cup {[rec |-> r, msg |-> "A"]}
                                               ELSE c.upd]
      ELSE c

(* the gate without the confirmation margin *)
SeedReachedNoMargin(task, tsHeight) == tsHeight >= task.SeedEpoch

(* The height gate of stage 4. *)
SeedReached(task, tsHeight) == tsHeight >= task.SeedEpoch + seedEpochConfidence

PollStartPoRep(c, task, tsHeight) ==
    IF handles[pollerPoRep] /\ task.AfterPrecommitMsgSuccess
       /\ task.SeedEpoch # NoEpoch /\ task.TaskPoRep = Null
       /\ SeedReached(task, tsHeight)
      THEN AddTask(c, task.SectorNumber, pollerPoRep,
                   ExecClaimPoRep(c.rows[task.SectorNumber], c.nextId))
      ELSE c

(* pollStartCommitMsg without the test of task.AfterPoRep and of the proof *)
PollStartCommitMsgEarly(c, task) ==
    IF task.TaskCommitMsg = Null /\ handles[pollerCommitMsg]
      THEN AddTask(c, task.SectorNumber, pollerCommitMsg,
                   ExecClaimCommitMsg(c.rows[task.SectorNumber], c.nextId))
      ELSE c

(* pollStartCommitMsg without the test of task.TaskCommitMsg *)
PollStartCommitMsgAgain(c, task) ==
    IF task.AfterPoRep /\ task.PoRepProof > 0 /\ handles[pollerCommitMsg]
      THEN AddTask(c, task.SectorNumber, pollerCommitMsg,
                   ExecClaimCommitMsg(c.rows[task.SectorNumber], c.nextId))
      ELSE c

PollStartCommitMsg(c, task) ==
    IF task.AfterPoRep /\ task.PoRepProof > 0 /\ task.TaskCommitMsg = Null
       /\ handles[pollerCommitMsg]
      THEN AddTask(c, task.SectorNumber, pollerCommitMsg,
                   ExecClaimCommitMsg(c.rows[task.SectorNumber], c.nextId))
      ELSE c

(* the trigger of the message-B check written like that of message A *)
CommitMsgLandedDueOnClaim(task) ==
    task.TaskCommitMsg # Null /\ ~task.AfterCommitMsgSuccess

(* The condition of pollCommitMsgLanded (line 280). *)
CommitMsgLandedDue(task) ==
    task.AfterCommitMsg /\ ~task.AfterCommitMsgSuccess /\ handles[pollerCommitMsg]

PollCommitMsgLanded(c, task) ==
    LET r == task.SectorNumber
        q == [c EXCEPT !.api = c.api \cup {"message_waits B"}]
    IN
    IF CommitMsgLandedDue(task)
      THEN IF ~c.ans.joinB
             THEN [q EXCEPT !.errs = c.errs \cup {"joinB"}]
           ELSE IF ~execB[r] THEN q
           ELSE IF ~c.ans.si
             THEN [q EXCEPT !.api = q.api \cup {"StateSectorGetInfo"},
                            !.ret = "si"]
           ELSE IF ~si[r]
             THEN [q EXCEPT !.api = q.api \cup {"StateSectorGetInfo"}]
           ELSE IF ~c.ans.updB
             THEN [q EXCEPT !.api = q.api \cup {"StateSectorGetInfo"},
                            !.ret = "updB"]
           ELSE LET res == ExecLandedB(c.rows[r]) IN
                [q EXCEPT !.api = q.api \cup {"StateSectorGetInfo"},
                          !.rows[r] = res.row,
                          !.upd = IF res.n = 1 THEN c.upd \cup {[rec |-> r, msg |-> "B"]}
                                               ELSE c.upd]
      ELSE c

(* mustPoll(err): the error a landing check returned is logged, nothing more. *)
MustPoll(c) ==
    IF c.ret # "" THEN [c EXCEPT !.errs = c.errs \cup {c.ret}, !.ret = ""] ELSE c

(* Lines 138-139 of poll: the checks before pollStartPrecommitMsg. *)
BeforeVal(c, task) ==
    PollStartSDRTrees(Called(PollStartSDR(Called(c, "SDR"), task), "Trees"), task)

(* Lines 140-144 of poll: pollStartPrecommitMsg and everything after it. *)
FromVal(c, task, tsHeight) ==
    LET c3 == PollStartPrecommitMsg(Called(c, "PrecommitMsg"), task)
        c4 == MustPoll(PollPrecommitMsgLanded(Called(c3, "PrecommitMsgLanded"), task))
        c5 == PollStartPoRep(Called(c4, "PoRep"), task, tsHeight)
        c6 == PollStartCommitMsg(Called(c5, "CommitMsg"), task)
    IN MustPoll(PollCommitMsgLanded(Called(c6, "CommitMsgLanded"), task))

(* the load query without its WHERE clause *)
SelectedAll(row) == TRUE

(* WHERE after_commit_msg_success != true *)
Selected(row) == row.AfterCommitMsgSuccess # TRUE

RECURSIVE SelectRows(_, _)
SelectRows(tbl, S) ==
    IF S = {} THEN <<>>
    ELSE LET n == CHOOSE x \in S : \A y \in S : x <= y IN
         (IF Selected(tbl[n]) THEN <<tbl[n]>> ELSE <<>>) \o SelectRows(tbl, S \ {n})

(* the loop without `if task.Failed { continue }` *)
SkippedNever(task) == FALSE

(* Whether the loop of poll skips a loaded record: `if task.Failed { continue }`. *)
Skipped(task) == task.Failed

----------------------------------------------------------------------------
(* RunPoller and poll *)

(* Every call succeeds. *)
AllOk == [claim |-> TRUE, joinA |-> TRUE, pci |-> TRUE, updA |-> TRUE,
          joinB |-> TRUE, si |-> TRUE, updB |-> TRUE]

(* ChainHead read before the loop and kept for all records of the poll *)
ReadHeadOnce(p) == IF ts[p] = NoEpoch THEN height ELSE ts[p]

(* ts, err := s.api.ChainHead(ctx), line 133: inside the loop over the records. *)
ReadHead(p) == height

(* The running result of one record's evaluation, before its first check. *)
Start == [rows |-> rows, nextId |-> nextId, claims |-> {}, upd |-> {},
          api |-> {}, errs |-> {}, calls |-> <<>>, ret |-> "", ans |-> AllOk]

(* RunPoller returning the error of poll instead of logging it *)
AfterPollPropagates(p) == IF perr[p] THEN "stopped" ELSE "select"

(* `return err` / `return nil` of poll, seen from RunPoller: the error is  *)
(* logged and the loop goes back to its select.                            *)
AfterPoll(p) == "select"

(* The outcomes of a data-store or chain call made with ctx: it fails once *)
(* ctx is cancelled, and may fail for reasons of its own before that.     *)
Answers == IF cancelled THEN {FALSE} ELSE IF faults THEN BOOLEAN ELSE {TRUE}

(* The outcomes of the calls one iteration of poll can make for `task`:  *)
(* a call that the iteration cannot make has no outcome to choose.        *)
MayCall(task) ==
    LET r == task.SectorNumber
        a == task.TaskPrecommitMsg # Null /\ ~task.AfterPrecommitMsgSuccess
        b == CommitMsgLandedDue(task)
    IN [claim |-> \/ task.TaskSDR = Null
                  \/ task.TaskTreeD = Null /\ task.AfterSDR
                  \/ PrecommitMsgReady(task)
                  \/ task.TaskPoRep = Null /\ task.AfterPrecommitMsgSuccess
                  \/ task.TaskCommitMsg = Null /\ task.AfterPoRep,
        joinA |-> a,
        pci |-> a /\ execA[r],
        updA |-> a /\ execA[r] /\ pciEpoch[r] # NoEpoch,
        joinB |-> b,
        si |-> b /\ execB[r],
        updB |-> b /\ execB[r] /\ si[r]]

Outcomes(task) ==
    IF Answers = {TRUE} THEN {AllOk}
    ELSE LET may == MayCall(task) IN
         {ans \in [DOMAIN AllOk -> BOOLEAN] :
             \A k \in DOMAIN AllOk : IF may[k] THEN ans[k] \in Answers ELSE ans[k]}

(* case <-ticker.C: poll starts with its load query (lines 110-125). *)
Tick(p) ==
    /\ pc[p] = "select"
    /\ \E ok \in Answers :
         IF ok
           THEN LET loaded == SelectRows(rows, DOMAIN rows) IN
                /\ tasks' = [tasks EXCEPT ![p] = loaded]
                /\ pc' = [pc EXCEPT ![p] = IF loaded = <<>> THEN "returned" ELSE "records"]
                /\ perr' = [perr EXCEPT ![p] = FALSE]
                /\ last' = [NoLast EXCEPT !.p = p, !.kind = "load",
                              !.loaded = {loaded[i].SectorNumber : i \in 1 .. Len(loaded)}]
           ELSE /\ tasks' = [tasks EXCEPT ![p] = <<>>]
                /\ pc' = [pc EXCEPT ![p] = "returned"]
                /\ perr' = [perr EXCEPT ![p] = TRUE]
                /\ last' = [NoLast EXCEPT !.p = p, !.kind = "loadfailed"]
    /\ UNCHANGED <<rows, execA, pciEpoch, execB, si, height, handles, nextId,
                   cancelled, ts, faults, assignVars>>

(* The loop left with an error. *)
Aborts(p, c, task, kind, prevTs) ==
    /\ rows' = c.rows
    /\ nextId' = c.nextId
    /\ tasks' = [tasks EXCEPT ![p] = <<>>]
    /\ pc' = [pc EXCEPT ![p] = "returned"]
    /\ perr' = [perr EXCEPT ![p] = TRUE]
    /\ last' = [NoLast EXCEPT !.p = p, !.kind = kind, !.rec = task.SectorNumber,
                  !.ts = ts'[p], !.prevTs = prevTs, !.seed = task.SeedEpoch,
                  !.claims = c.claims, !.upd = c.upd, !.api = c.api,
                  !.errs = c.errs, !.calls = c.calls]

StoreErrors == {"joinA", "updA", "joinB", "updB"}

(* poll returning the error of a data-store call of a landing check *)
FinishUnlessStoreError(p, c, task, kind, prevTs) ==
    IF c.errs \cap StoreErrors # {} THEN Aborts(p, c, task, kind, prevTs)
    ELSE /\ rows' = c.rows
         /\ nextId' = c.nextId
         /\ tasks' = [tasks EXCEPT ![p] = Tail(tasks[p])]
         /\ pc' = [pc EXCEPT ![p] = IF Tail(tasks[p]) = <<>> THEN "returned" ELSE "records"]
         /\ perr' = [perr EXCEPT ![p] = FALSE]
         /\ last' = [NoLast EXCEPT !.p = p, !.kind = kind, !.rec = task.SectorNumber,
                       !.ts = ts'[p], !.prevTs = prevTs, !.seed = task.SeedEpoch,
                       !.claims = c.claims, !.upd = c.upd, !.api = c.api,
                       !.errs = c.errs, !.calls = c.calls]

(* poll returning the error of a claim or of a chain query of a landing check *)
FinishUnlessCheckError(p, c, task, kind, prevTs) ==
    IF c.errs \cap {"claim", "pci", "si"} # {} THEN Aborts(p, c, task, kind, prevTs)
    ELSE /\ rows' = c.rows
         /\ nextId' = c.nextId
         /\ tasks' = [tasks EXCEPT ![p] = Tail(tasks[p])]
         /\ pc' = [pc EXCEPT ![p] = IF Tail(tasks[p]) = <<>> THEN "returned" ELSE "records"]
         /\ perr' = [perr EXCEPT ![p] = FALSE]
         /\ last' = [NoLast EXCEPT !.p = p, !.kind = kind, !.rec = task.SectorNumber,
                       !.ts = ts'[p], !.prevTs = prevTs, !.seed = task.SeedEpoch,
                       !.claims = c.claims, !.upd = c.upd, !.api = c.api,
                       !.errs = c.errs, !.calls = c.calls]

(* The record's evaluation is over: next iteration, or `return nil`. *)
Finish(p, c, task, kind, prevTs) ==
    /\ rows' = c.rows
    /\ nextId' = c.nextId
    /\ tasks' = [tasks EXCEPT ![p] = Tail(tasks[p])]
    /\ pc' = [pc EXCEPT ![p] = IF Tail(tasks[p]) = <<>> THEN "returned" ELSE "records"]
    /\ perr' = [perr EXCEPT ![p] = FALSE]
    /\ last' = [NoLast EXCEPT !.p = p, !.kind = kind, !.rec = task.SectorNumber,
                  !.ts = ts'[p], !.prevTs = prevTs, !.seed = task.SeedEpoch,
                  !.claims = c.claims, !.upd = c.upd, !.api = c.api,
                  !.errs = c.errs, !.calls = c.calls]

(* One iteration of the loop of poll (lines 127-145) up to its end or to   *)
(* the wait inside Val of pollStartPrecommitMsg.                           *)
RecordStep(p) ==
    /\ pc[p] = "records"
    /\ LET task == Head(tasks[p]) IN
       \/ /\ Skipped(task)
          /\ ts' = ts
          /\ Finish(p, Start, task, "skip", ts[p])
       \/ /\ ~Skipped(task)
          /\ \E headOk \in Answers :
               IF ~headOk
                 THEN /\ tasks' = [tasks EXCEPT ![p] = <<>>]
                      /\ pc' = [pc EXCEPT ![p] = "returned"]
                      /\ perr' = [perr EXCEPT ![p] = TRUE]
                      /\ last' = [NoLast EXCEPT !.p = p, !.kind = "headfailed",
                                    !.rec = task.SectorNumber, !.api = {"ChainHead"}]
                            /\ UNCHANGED <<rows, nextId, ts>>
                 ELSE /\ ts' = [ts EXCEPT ![p] = ReadHead(p)]
                      /\ \E ans \in Outcomes(task) :
                         \E c1 \in {BeforeVal([Start EXCEPT !.api = {"ChainHead"},
                                                            !.ans = ans], task)} :
                         IF WaitsInVal(task)
                           THEN /\ rows' = c1.rows
                                /\ nextId' = c1.nextId
                                /\ pc' = [pc EXCEPT ![p] = "blocked"]
                                /\ last' = [NoLast EXCEPT !.p = p, !.kind = "blocked",
                                              !.rec = task.SectorNumber, !.ts = ts'[p],
                                              !.prevTs = ts[p], !.seed = task.SeedEpoch,
                                              !.claims = c1.claims, !.api = c1.api,
                                              !.errs = c1.errs, !.calls = c1.calls]
                                /\ UNCHANGED <<tasks, perr>>
                           ELSE \E c2 \in {FromVal(c1, task, ts'[p])} :
                                    Finish(p, c2, task, "record", ts[p])
    /\ UNCHANGED <<execA, pciEpoch, execB, si, height, handles, cancelled, faults,
                   assignVars>>

(* Val returns once the handle is set; the iteration goes on from line 140. *)
ValReturns(p) ==
    /\ pc[p] = "blocked"
    /\ handles[pollerPrecommitMsg]
    /\ LET task == Head(tasks[p]) IN
       \E ans \in Outcomes(task) :
         \E c2 \in {FromVal([Start EXCEPT !.ans = ans], task, ts[p])} :
         /\ ts' = ts
         /\ Finish(p, c2, task, "resumed", ts[p])
    /\ UNCHANGED <<execA, pciEpoch, execB, si, height, handles, cancelled, faults,
                   assignVars>>

(* poll has returned to RunPoller (lines 65-67). *)
Return(p) ==
    /\ pc[p] = "returned"
    /\ pc' = [pc EXCEPT ![p] = AfterPoll(p)]
    /\ perr' = [perr EXCEPT ![p] = FALSE]
    /\ ts' = [ts EXCEPT ![p] = NoEpoch]
    /\ last' = NoLast
    /\ UNCHANGED <<rows, execA, pciEpoch, execB, si, height, handles, nextId,
                   cancelled, tasks, faults, assignVars>>

(* case <-ctx.Done(): return *)
Stop(p) ==
    /\ pc[p] = "select"
    /\ cancelled
    /\ pc' = [pc EXCEPT ![p] = "stopped"]
    /\ last' = [NoLast EXCEPT !.p = p, !.kind = "stopped"]
    /\ UNCHANGED <<rows, execA, pciEpoch, execB, si, height, handles, nextId,
                   cancelled, tasks, ts, perr, faults, assignVars>>

----------------------------------------------------------------------------
(* The environment: the task engine, the tasks it runs, the chain, the    *)
(* indexer of message_waits, the operator.                                 *)

(* A change of the environment: at any time, also between the load of a   *)
(* poll and the evaluation of a record; the return of poll to RunPoller   *)
(* takes no time.                                                          *)
Changed ==
    /\ \A p \in Pollers : pc[p] # "returned"
    /\ last' = NoLast
    /\ UNCHANGED <<nextId, pc, tasks, ts, perr, faults, assignVars>>

Live(r) == r \in DOMAIN rows /\ ~rows[r].Failed

(* The task engine hands over the AddTaskFunc of a stage (pollers[i].Set), *)
(* once per stage, the stages in any order, some of them possibly never.  *)
SetHandle(i) ==
    /\ ~handles[i]
    /\ handles' = [handles EXCEPT ![i] = TRUE]
    /\ Changed
    /\ UNCHANGED <<rows, execA, pciEpoch, execB, si, height, cancelled>>

AdvanceHeight ==
    /\ height < MaxHeight
    /\ height' = height + 1
    /\ Changed
    /\ UNCHANGED <<rows, execA, pciEpoch, execB, si, handles, cancelled>>

Cancel ==
    /\ ~cancelled
    /\ cancelled' = TRUE
    /\ Changed
    /\ UNCHANGED <<rows, execA, pciEpoch, execB, si, height, handles>>

CompleteSDR(r) ==
    /\ Live(r) /\ rows[r].TaskSDR # Null /\ ~rows[r].AfterSDR
    /\ rows' = [rows EXCEPT ![r].AfterSDR = TRUE]
    /\ Changed
    /\ UNCHANGED <<execA, pciEpoch, execB, si, height, handles, cancelled>>

CompleteTrees(r) ==
    /\ Live(r) /\ rows[r].TaskTreeR # Null /\ ~rows[r].AfterTreeR
    /\ rows' = [rows EXCEPT ![r].AfterTreeD = TRUE, ![r].AfterTreeC = TRUE,
                            ![r].AfterTreeR = TRUE]
    /\ Changed
    /\ UNCHANGED <<execA, pciEpoch, execB, si, height, handles, cancelled>>

CompletePrecommitMsg(r) ==
    /\ Live(r) /\ rows[r].TaskPrecommitMsg # Null /\ ~rows[r].AfterPrecommitMsg
    /\ rows' = [rows EXCEPT ![r].AfterPrecommitMsg = TRUE]
    /\ Changed
    /\ UNCHANGED <<execA, pciEpoch, execB, si, height, handles, cancelled>>

(* Message A is executed on chain; its precommit info is there or not.    *)
(* Only executions whose seed can still be reached below MaxHeight are    *)
(* followed.                                                               *)
ConfirmA(r, present) ==
    /\ Live(r) /\ rows[r].AfterPrecommitMsg /\ ~execA[r]
    /\ present => height + ChallengeDelay + seedEpochConfidence <= MaxHeight
    /\ execA' = [execA EXCEPT ![r] = TRUE]
    /\ pciEpoch' = [pciEpoch EXCEPT ![r] = IF present THEN height ELSE NoEpoch]
    /\ Changed
    /\ UNCHANGED <<rows, execB, si, height, handles, cancelled>>

CompletePoRep(r) ==
    /\ Live(r) /\ rows[r].TaskPoRep # Null /\ ~rows[r].AfterPoRep
    /\ rows' = [rows EXCEPT ![r].AfterPoRep = TRUE, ![r].PoRepProof = 1]
    /\ Changed
    /\ UNCHANGED <<execA, pciEpoch, execB, si, height, handles, cancelled>>

CompleteCommitMsg(r) ==
    /\ Live(r) /\ rows[r].TaskCommitMsg # Null /\ ~rows[r].AfterCommitMsg
    /\ rows' = [rows EXCEPT ![r].AfterCommitMsg = TRUE]
    /\ Changed
    /\ UNCHANGED <<execA, pciEpoch, execB, si, height, handles, cancelled>>

(* Message B is executed on chain; the sector info is there or not. *)
ConfirmB(r, present) ==
    /\ Live(r) /\ rows[r].AfterCommitMsg /\ ~execB[r]
    /\ execB' = [execB EXCEPT ![r] = TRUE]
    /\ si' = [si EXCEPT ![r] = present]
    /\ Changed
    /\ UNCHANGED <<rows, execA, pciEpoch, height, handles, cancelled>>

MarkFailed(r) ==
    /\ Live(r) /\ ~rows[r].AfterCommitMsgSuccess
    /\ rows' = [rows EXCEPT ![r].Failed = TRUE]
    /\ Changed
    /\ UNCHANGED <<execA, pciEpoch, execB, si, height, handles, cancelled>>

----------------------------------------------------------------------------
(* Specifications of the poller *)

(* No assigner pass is modelled next to the poller. *)
AssignerOff ==
    /\ sched = <<>>
    /\ queue = <<>>
    /\ todo = <<>>
    /\ placed = <<>>
    /\ scheduled = 0
    /\ apc = "off"

InitCommon ==
    /\ execA = [r \in Records |-> FALSE]
    /\ pciEpoch = [r \in Records |-> NoEpoch]
    /\ execB = [r \in Records |-> FALSE]
    /\ si = [r \in Records |-> FALSE]
    /\ height = 0
    /\ nextId = 1
    /\ cancelled = FALSE
    /\ tasks = [p \in Pollers |-> <<>>]
    /\ ts = [p \in Pollers |-> NoEpoch]
    /\ perr = [p \in Pollers |-> FALSE]
    /\ last = NoLast
    /\ AssignerOff

(* One poller process, two sectors in the pipeline, no handle registered yet. *)
Init ==
    /\ rows = [r \in Records |-> NewRow(r)]
    /\ handles = [i \in Stages |-> FALSE]
    /\ pc = [p \in Pollers |-> IF p = 1 THEN "select" ELSE "off"]
    /\ faults = FALSE
    /\ InitCommon

(* Two poller processes on the same table, one sector. *)
InitRace ==
    /\ rows = [r \in {1} |-> NewRow(r)]
    /\ handles = [i \in Stages |-> FALSE]
    /\ pc = [p \in Pollers |-> "select"]
    /\ faults = FALSE
    /\ InitCommon

Next ==
    \/ \E p \in Pollers : Tick(p)
    \/ \E p \in Pollers : RecordStep(p)
    \/ \E p \in Pollers : ValReturns(p)
    \/ \E p \in Pollers : Return(p)
    \/ \E i \in Stages : SetHandle(i)
    \/ AdvanceHeight
    \/ \E r \in Records : CompleteSDR(r)
    \/ \E r \in Records : CompleteTrees(r)
    \/ \E r \in Records : CompletePrecommitMsg(r)
    \/ \E r \in Records, present \in BOOLEAN : ConfirmA(r, present)
    \/ \E r \in Records : CompletePoRep(r)
    \/ \E r \in Records : CompleteCommitMsg(r)
    \/ \E r \in Records, present \in BOOLEAN : ConfirmB(r, present)
    \/ \E r \in Records : MarkFailed(r)

Spec == Init /\ [][Next]_vars

SpecRace == InitRace /\ [][Next]_vars

(* One poller process, one sector, failing calls and the cancellation of ctx. *)
InitStop ==
    /\ rows = [r \in {1} |-> NewRow(r)]
    /\ handles = [i \in Stages |-> FALSE]
    /\ pc = [p \in Pollers |-> IF p = 1 THEN "select" ELSE "off"]
    /\ faults = TRUE
    /\ InitCommon

NextStop ==
    \/ Next
    \/ Cancel
    \/ \E p \in Pollers : Stop(p)

SpecStop == InitStop /\ [][NextStop]_vars

(* One poller process, two sectors, failing calls; every handle has been  *)
(* registered before the first poll and no sector is marked failed.       *)
InitFault ==
    /\ rows = [r \in Records |-> NewRow(r)]
    /\ handles = [i \in Stages |-> TRUE]
    /\ pc = [p \in Pollers |-> IF p = 1 THEN "select" ELSE "off"]
    /\ faults = TRUE
    /\ InitCommon

NextFault ==
    \/ \E p \in Pollers : Tick(p)
    \/ \E p \in Pollers : RecordStep(p)
    \/ \E p \in Pollers : Return(p)
    \/ AdvanceHeight
    \/ \E r \in Records : CompleteSDR(r)
    \/ \E r \in Records : CompleteTrees(r)
    \/ \E r \in Records : CompletePrecommitMsg(r)
    \/ \E r \in Records, present \in BOOLEAN : ConfirmA(r, present)
    \/ \E r \in Records : CompletePoRep(r)
    \/ \E r \in Records : CompleteCommitMsg(r)
    \/ \E r \in Records, present \in BOOLEAN : ConfirmB(r, present)

SpecFault == InitFault /\ [][NextFault]_vars

(* Two poller processes on the same table, one sector, failing calls. *)
InitClaims ==
    /\ rows = [r \in {1} |-> NewRow(r)]
    /\ handles = [i \in Stages |-> FALSE]
    /\ pc = [p \in Pollers |-> "select"]
    /\ faults = TRUE
    /\ InitCommon

SpecClaims == InitClaims /\ [][Next]_vars

----------------------------------------------------------------------------
(* SpreadWS: one pass of the spread assigner *)

Requests == {1, 2}
Windows == {1, 2, 3}
Workers == {"A", "B"}

(* The zero value of storiface.WorkerInfo, `var info storiface.WorkerInfo`. *)
ZeroInfo == [Total |-> 0]

(* sh.Workers[wid].Info *)
InfoOf(wid) == [Total |-> sched.total[wid]]

(* info.Resources.ResourceSpec(proofType, taskType): the request of the  *)
(* task, from the default table when the worker info overrides nothing.  *)
ResourceSpec(info, t) == sched.need[t]

(* windows[wnd].Allocated.CanHandleRequest(res, wid, "schedAssign", info): *)
(* the request fits into what info says the worker has, beside what the    *)
(* window has allocated.                                                    *)
CanHandleRequest(allocated, res, info) == allocated + res <= info.Total

(* The worker info the code hands to ResourceSpec and CanHandleRequest when *)
(* it examines a candidate of worker wid: the local `info`, which holds the *)
(* zero value until a candidate is selected and then the info of the best   *)
(* candidate so far (lines 357, 365, 369, 378).                             *)
InfoUsed(st, wid) == st.info

(* The body of the loop over acceptableWindows[task.IndexHeap] (361-382). *)
ScanStep(st, t, wnd, wa) ==
    LET wid == sched.owner[wnd]
        res == ResourceSpec(InfoUsed(st, wid), t)
    IN IF ~CanHandleRequest(sched.alloc[wnd], res, InfoUsed(st, wid)) THEN st
       ELSE IF wa[wid] >= st.bestAssigned THEN st
       ELSE [info |-> InfoOf(wid), bestWid |-> wid, selectedWindow |-> wnd,
             bestAssigned |-> wa[wid]]

RECURSIVE Scan(_, _, _, _)
Scan(st, t, aw, wa) ==
    IF aw = <<>> THEN st ELSE Scan(ScanStep(st, t, Head(aw), wa), t, Tail(aw), wa)

(* The state of the scan before the first candidate (356-359). *)
ScanStart == [info |-> ZeroInfo, bestWid |-> "", selectedWindow |-> NoWindow,
              bestAssigned |-> MaxInt]

(* a placement that does not note the request for removal *)
PlaceKeepsQueued(s, sqi) ==
    LET t  == queue[sqi]
        st == Scan(ScanStart, t, sched.accept[t], s.workerAssigned)
    IN IF st.selectedWindow < 0 THEN s
       ELSE [workerAssigned |-> [s.workerAssigned EXCEPT ![st.bestWid] = @ + 1],
             todo |-> [s.todo EXCEPT ![st.selectedWindow] = Append(@, t)],
             rmQueue |-> s.rmQueue,
             placed |-> Append(s.placed, [task |-> t, window |-> st.selectedWindow,
                                          assigned |-> s.workerAssigned]),
             scheduled |-> s.scheduled + 1]

(* One iteration of the loop over the queue (353-402). *)
Place(s, sqi) ==
    LET t  == queue[sqi]
        st == Scan(ScanStart, t, sched.accept[t], s.workerAssigned)
    IN IF st.selectedWindow < 0 THEN s
       ELSE [workerAssigned |-> [s.workerAssigned EXCEPT ![st.bestWid] = @ + 1],
             todo |-> [s.todo EXCEPT ![st.selectedWindow] = Append(@, t)],
             rmQueue |-> Append(s.rmQueue, sqi),
             placed |-> Append(s.placed, [task |-> t, window |-> st.selectedWindow,
                                          assigned |-> s.workerAssigned]),
             scheduled |-> s.scheduled + 1]

RECURSIVE PassFrom(_, _, _)
PassFrom(s, sqi, queueLen) ==
    IF sqi > queueLen THEN s ELSE PassFrom(Place(s, sqi), sqi + 1, queueLen)

(* sh.SchedQueue.Remove(i): the queue without its i-th request, the others *)
(* in their order.                                                          *)
Remove(q, i) == [j \in 1 .. (Len(q) - 1) |-> IF j < i THEN q[j] ELSE q[j + 1]]

(* Lines 404-408: the placed requests leave the queue, last index first. *)
RECURSIVE RemoveAll(_, _)
RemoveAll(q, rm) ==
    IF rm = <<>> THEN q
    ELSE RemoveAll(Remove(q, rm[Len(rm)]), SubSeq(rm, 1, Len(rm) - 1))

SpreadWS ==
    /\ apc = "ready"
    /\ LET s == PassFrom([workerAssigned |-> [w \in Workers |-> 0], todo |-> todo,
                          rmQueue |-> <<>>, placed |-> <<>>, scheduled |-> 0],
                         1, Len(queue))
       IN /\ todo' = s.todo
          /\ placed' = s.placed
          /\ scheduled' = s.scheduled
          /\ queue' = RemoveAll(queue, s.rmQueue)
    /\ apc' = "done"
    /\ UNCHANGED <<sched, pollerVars>>

(* Sequences without repetition over S: the lists of acceptable windows. *)
Lists(S) ==
    {q \in UNION {[1 .. n -> S] : n \in 0 .. Cardinality(S)} :
        \A i, j \in DOMAIN q : i # j => q[i] # q[j]}

(* The poller is not running next to the assigner. *)
PollerOff ==
    /\ rows = <<>>
    /\ execA = [r \in Records |-> FALSE]
    /\ pciEpoch = [r \in Records |-> NoEpoch]
    /\ execB = [r \in Records |-> FALSE]
    /\ si = [r \in Records |-> FALSE]
    /\ height = 0
    /\ handles = [i \in Stages |-> FALSE]
    /\ nextId = 1
    /\ cancelled = FALSE
    /\ pc = [p \in Pollers |-> "off"]
    /\ tasks = [p \in Pollers |-> <<>>]
    /\ ts = [p \in Pollers |-> NoEpoch]
    /\ perr = [p \in Pollers |-> FALSE]
    /\ last = NoLast
    /\ faults = FALSE

(* A queue of two requests, three open windows with empty Todo lists on *)
(* two workers, any lists of acceptable windows, allocations and needs. *)
InitAssign ==
    /\ sched \in [accept : [Requests -> Lists(Windows)],
                  owner  : [Windows -> Workers],
                  alloc  : [Windows -> 0 .. MaxAlloc],
                  total  : [Workers -> {WorkerTotal}],
                  need   : [Requests -> 0 .. MaxNeed]]
    /\ queue = <<1, 2>>
    /\ todo = [w \in Windows |-> <<>>]
    /\ placed = <<>>
    /\ scheduled = 0
    /\ apc = "ready"
    /\ PollerOff

NextAssign == SpreadWS

SpecAssign == InitAssign /\ [][NextAssign]_vars

----------------------------------------------------------------------------
(* Properties *)

(* The task-id columns a stage claims. *)
TaskIds(row, stage) ==
    CASE stage = pollerSDR -> {row.TaskSDR}
      [] stage = pollerTrees -> {row.TaskTreeD, row.TaskTreeC, row.TaskTreeR}
      [] stage = pollerPrecommitMsg -> {row.TaskPrecommitMsg}
      [] stage = pollerPoRep -> {row.TaskPoRep}
      [] stage = pollerCommitMsg -> {row.TaskCommitMsg}

Unclaimed(row, stage) == TaskIds(row, stage) = {Null}

(* last' describes the evaluation of a record that this step performed *)
Evaluated == last' # last /\ last'.kind \in {"record", "blocked", "resumed"}

(* C1: claims of a stage are mutually exclusive and write-once.  Whenever  *)
(* a poller attempts a claim, however stale its copy of the row, the       *)
(* update affects one row exactly if the stage was unclaimed in the table  *)
(* at that moment, and zero rows otherwise; an attempt with zero rows      *)
(* leaves the stage's columns and the id counter as they were; and no step *)
(* of any poller or of the environment changes or clears a task-id column  *)
(* that is set.                                                            *)
C1_ExclusiveWriteOnce ==
    [][ /\ \A r \in DOMAIN rows : \A st \in Stages : \A id \in TaskIds(rows[r], st) :
             id # Null => id \in TaskIds(rows'[r], st)
                          /\ Cardinality(TaskIds(rows'[r], st)) <= Cardinality(TaskIds(rows[r], st))
        /\ Evaluated =>
             \A a \in last'.claims :
                /\ a.n \in {0, 1}
                /\ a.n = 1 <=> Unclaimed(rows[a.rec], a.stage)
                /\ a.n = 1 => TaskIds(rows'[a.rec], a.stage) = {nextId}
                /\ a.n = 0 => TaskIds(rows'[a.rec], a.stage) = TaskIds(rows[a.rec], a.stage)
        /\ Evaluated => nextId' = nextId + Cardinality({a \in last'.claims : a.n = 1})
      ]_vars

(* C1 witness: a second poller, holding a copy of the row from before the *)
(* first one's claim, attempted the same claim and got zero rows.          *)
C1_Witness ==
    /\ \A p \in Pollers : pc[p] # "off"
    /\ \E a \in last.claims : a.n = 0 /\ ~Unclaimed(rows[a.rec], a.stage)

----------------------------------------------------------------------------
(* poll run to its end from the current state of the store, the chain and *)
(* the handles, every call succeeding: the loop of lines 127-145 folded   *)
(* over the loaded rows.                                                   *)

EvalRecord(c, task) ==
    IF Skipped(task) THEN c
    ELSE FromVal(BeforeVal(c, task), task, height)

RECURSIVE EvalAll(_, _)
EvalAll(c, loaded) ==
    IF loaded = <<>> THEN c ELSE EvalAll(EvalRecord(c, Head(loaded)), Tail(loaded))

PollOnce(c) ==
    EvalAll([c EXCEPT !.claims = {}, !.upd = {}, !.api = {}, !.errs = {},
                      !.calls = <<>>],
            SelectRows(c.rows, DOMAIN c.rows))

(* poll run from store c returns: it does not wait inside Val *)
Returns(c) ==
    LET loaded == SelectRows(c.rows, DOMAIN c.rows) IN
    \A i \in 1 .. Len(loaded) : Skipped(loaded[i]) \/ ~WaitsInVal(loaded[i])

Idle == \E p \in Pollers : pc[p] = "select"

(* C2 as claimed: a second poll right after a first one, nothing else     *)
(* changing, attempts no claim and meets no error.                         *)
C2_SecondRunClaimsNothing ==
    Idle /\ Returns(Start) =>
        LET c1 == PollOnce(Start)
            c2 == PollOnce(c1)
        IN c2.claims = {} /\ c2.errs = {}

(* C2 amended: the second poll meets no error and attempts no claim but   *)
(* that of PoRep, and that one only for a record whose message-A landing  *)
(* the first poll recorded (the first poll evaluated pollStartPoRep on    *)
(* the row as loaded, before the landing); a third poll attempts no claim  *)
(* and updates nothing.                                                    *)
C2_SecondRunOnlyPoRep ==
    Idle /\ Returns(Start) =>
        LET c1 == PollOnce(Start)
            c2 == PollOnce(c1)
            c3 == PollOnce(c2)
        IN /\ c2.errs = {}
           /\ \A a \in c2.claims :
                a.stage = pollerPoRep /\ a.n = 1 /\ [rec |-> a.rec, msg |-> "A"] \in c1.upd
           /\ c3.claims = {} /\ c3.errs = {} /\ c3.upd = {}

(* C2 witness: a store from which the first poll claims or records        *)
(* something and the second poll claims PoRep.                             *)
C2_Witness ==
    /\ Idle /\ Returns(Start)
    /\ PollOnce(Start).upd # {}
    /\ PollOnce(PollOnce(Start)).claims # {}

----------------------------------------------------------------------------
(* C3: whenever the evaluation of a record claims PoRep, the height that  *)
(* evaluation read from the chain head is at least the record's seed      *)
(* epoch plus seedEpochConfidence, and the seed epoch is the one recorded  *)
(* in the table.                                                           *)
C3_HeightGate ==
    \A a \in last.claims :
        a.stage = pollerPoRep =>
            /\ last.seed # NoEpoch
            /\ last.seed = rows[a.rec].SeedEpoch
            /\ last.ts >= last.seed + seedEpochConfidence

(* C3 witness: PoRep was claimed, the height read being exactly at the gate. *)
C3_Witness ==
    \E a \in last.claims :
        a.stage = pollerPoRep /\ a.n = 1 /\ last.ts = last.seed + seedEpochConfidence

(* C4: when the loop of poll reaches a record loaded with failed = true,  *)
(* that step changes no row, mints no task id, attempts no claim, makes   *)
(* no landing update and issues no chain query.                            *)
C4_FailedSkipped ==
    [][ \A p \in Pollers :
          (pc[p] = "records" /\ Head(tasks[p]).Failed /\ tasks'[p] # tasks[p]) =>
             /\ rows' = rows
             /\ nextId' = nextId
             /\ ts' = ts
             /\ last'.claims = {} /\ last'.upd = {} /\ last'.api = {}
      ]_vars

(* C4 witness: a failed record was skipped although its SDR claim was     *)
(* otherwise ready, and the poll went on to the next record.               *)
C4_Witness ==
    /\ last.kind = "skip"
    /\ rows[last.rec].Failed /\ rows[last.rec].TaskSDR = Null /\ handles[pollerSDR]
    /\ pc[last.p] = "records"

(* C5: the rows a poll loads are exactly the rows whose                   *)
(* after_commit_msg_success is not true; no row a poll still has to visit  *)
(* was terminal when loaded; and the evaluation of a record claims and    *)
(* updates for that record only.                                           *)
C5_TerminalNotLoaded ==
    /\ last.kind = "load" =>
          last.loaded = {r \in DOMAIN rows : ~rows[r].AfterCommitMsgSuccess}
    /\ \A p \in Pollers : \A i \in 1 .. Len(tasks[p]) :
          ~tasks[p][i].AfterCommitMsgSuccess
    /\ \A x \in last.claims \cup last.upd : x.rec = last.rec

(* C5 witness: a poll has just loaded, a terminal record is in the table  *)
(* and another record was loaded.                                          *)
C5_Witness ==
    /\ last.kind = "load"
    /\ last.loaded # {}
    /\ \E r \in DOMAIN rows : rows[r].AfterCommitMsgSuccess /\ r \notin last.loaded

----------------------------------------------------------------------------
(* C6 as claimed: a pass never gives a window more than its worker's      *)
(* capacity admits beside its allocation, and on the queue                 *)
(* [request 1 acceptable on windows <<1, 2>>, request 2 on <<1>>], the     *)
(* windows empty and each with room for one request, it places request 1   *)
(* in window 1, leaves request 2 queued and returns 1.                     *)
RECURSIVE NeedOf(_)
NeedOf(q) == IF q = <<>> THEN 0 ELSE sched.need[Head(q)] + NeedOf(Tail(q))

C6_Example ==
    /\ sched.accept = (1 :> <<1, 2>> @@ 2 :> <<1>>)
    /\ \A w \in {1, 2} : sched.alloc[w] = 0
    /\ sched.owner[1] # sched.owner[2]
    /\ \A t \in Requests : sched.need[t] = 1

C6_CapacityRespected ==
    apc = "done" =>
        /\ \A w \in Windows :
              todo[w] # <<>> =>
                 sched.alloc[w] + NeedOf(todo[w]) <= sched.total[sched.owner[w]]
        /\ C6_Example =>
              /\ todo[1] = <<1>>
              /\ scheduled = 1
              /\ queue = <<2>>

----------------------------------------------------------------------------
(* C7 as claimed: every placement of a pass goes to the first, in the     *)
(* order of the request's acceptable windows, of the windows that pass    *)
(* the admission test of their own worker and whose worker has the fewest *)
(* placements of this pass so far; and with windows 1, 2 of one worker    *)
(* and window 3 of the other, all empty, two requests acceptable on       *)
(* <<1, 2, 3>> are placed, the second in window 3.                         *)
Feasible(t, w) ==
    CanHandleRequest(sched.alloc[w], ResourceSpec(InfoOf(sched.owner[w]), t),
                     InfoOf(sched.owner[w]))

SpreadChoice(t, assigned) ==
    LET aw == sched.accept[t]
        ok == {i \in DOMAIN aw : Feasible(t, aw[i])}
        best == {i \in ok : \A j \in ok :
                    assigned[sched.owner[aw[i]]] <= assigned[sched.owner[aw[j]]]}
    IN IF ok = {} THEN NoWindow
       ELSE aw[CHOOSE i \in best : \A j \in best : i <= j]

C7_Example ==
    /\ \A t \in Requests : sched.accept[t] = <<1, 2, 3>>
    /\ sched.owner[1] = sched.owner[2] /\ sched.owner[3] # sched.owner[1]
    /\ \A w \in Windows : sched.alloc[w] = 0
    /\ \A t \in Requests : sched.need[t] = 1

C7_SpreadRule ==
    apc = "done" =>
        /\ \A i \in DOMAIN placed :
              placed[i].window = SpreadChoice(placed[i].task, placed[i].assigned)
        /\ C7_Example =>
              /\ Len(placed) = 2
              /\ placed[2].window = 3

----------------------------------------------------------------------------
(* C8 as claimed: a poll never waits for a handle.  Whatever stage's      *)
(* handle is not set, the evaluation of the record goes on without the    *)
(* claim.                                                                  *)
C8_NeverWaits ==
    \A p \in Pollers : pc[p] # "blocked"

(* C9: RunPoller.  poll starts only from the select of the loop, so polls *)
(* of one process never overlap; when poll returns, with or without an    *)
(* error, the loop is back at its select, where the ticker can start the  *)
(* next poll; the loop is left only from its select, and only when ctx is *)
(* cancelled.                                                              *)
C9_LoopSurvivesErrors ==
    [][ \A p \in Pollers :
          /\ (pc[p] = "returned" /\ pc'[p] # pc[p]) => pc'[p] = "select"
          /\ (pc[p] # "records" /\ pc'[p] = "records") => pc[p] = "select"
          /\ (pc[p] # "stopped" /\ pc'[p] = "stopped") => pc[p] = "select" /\ cancelled
          /\ (pc[p] \in {"records", "blocked"}) =>
                pc'[p] \in {"records", "blocked", "returned"}
      ]_vars

(* C9 witness: a poll has failed and its error is about to be logged,    *)
(* ctx not being cancelled.                                               *)
C9_Witness ==
    \E p \in Pollers : pc[p] = "returned" /\ perr[p] /\ ~cancelled
                       /\ last.kind = "headfailed"

----------------------------------------------------------------------------
(* C10 as claimed: all records of one poll are compared against the same *)
(* height.                                                                *)
C10_OneHeightPerTick ==
    (last.kind \in {"record", "blocked"} /\ last.prevTs # NoEpoch) =>
        last.ts = last.prevTs

(* C10 amended: the chain head is read once for every record of the poll *)
(* that is not failed, at the start of that record's evaluation and not  *)
(* for a failed one; the height read then is the one the evaluation of   *)
(* that record uses, also after a wait inside Val.                        *)
C10_HeightPerRecord ==
    /\ last.kind \in {"record", "blocked"} =>
          last.ts = height /\ ts[last.p] = height /\ "ChainHead" \in last.api
    /\ last.kind = "skip" => ts[last.p] = last.prevTs /\ "ChainHead" \notin last.api
    /\ last.kind = "resumed" => last.ts = last.prevTs /\ last.ts <= height

(* C10 witness: the second record of a poll was evaluated against a      *)
(* height other than the first one's.                                     *)
C10_Witness ==
    /\ last.kind = "record"
    /\ last.prevTs # NoEpoch
    /\ last.ts # last.prevTs

----------------------------------------------------------------------------
(* The stage checks of one iteration of poll, in the order of lines 138-144. *)
AllChecks ==
    <<"SDR", "Trees", "PrecommitMsg", "PrecommitMsgLanded", "PoRep", "CommitMsg",
      "CommitMsgLanded">>

Aborted(p) == pc[p] = "returned" /\ perr[p] /\ tasks[p] = <<>>

(* the poll of p goes on after the record just evaluated *)
GoesOn(p) ==
    /\ ~perr[p]
    /\ IF tasks[p] = <<>> THEN pc[p] = "returned" ELSE pc[p] = "records"

(* C11 as claimed: the failure of the load, of a join query or of a      *)
(* landing update ends the tick: poll returns the error and no later     *)
(* check or record is processed.                                          *)
C11_StoreErrorAborts ==
    /\ last.kind = "loadfailed" => Aborted(last.p)
    /\ (last.kind = "record" /\ last.errs \cap StoreErrors # {}) =>
          Aborted(last.p) /\ last.calls # AllChecks

(* C11 amended: only the failure of the load ends the tick (poll returns *)
(* the error, no record is evaluated).  A failed join query is logged    *)
(* inside the landing check, a failed landing update is returned to      *)
(* mustPoll and logged; after either, the remaining checks of the record *)
(* are called and the poll goes on to the next record.                    *)
C11_OnlyLoadErrorAborts ==
    /\ last.kind = "loadfailed" =>
          Aborted(last.p) /\ last.calls = <<>> /\ last.loaded = {}
    /\ (last.kind = "record" /\ last.errs \cap StoreErrors # {}) =>
          GoesOn(last.p) /\ last.calls = AllChecks

(* C11 witness: the landing update of message A failed for the first     *)
(* record of a poll, and the poll is at its second record.                *)
C11_Witness ==
    /\ last.kind = "record"
    /\ "updA" \in last.errs
    /\ pc[last.p] = "records"

(* C12 as claimed: no error met in the evaluation of a record keeps the  *)
(* poll from the other records: each step of the loop on a record that   *)
(* is not failed calls all the checks and moves to the next record.       *)
C12_NoErrorStopsTick ==
    [][ \A p \in Pollers :
          (pc[p] = "records" /\ ~Head(tasks[p]).Failed /\ last' # last
           /\ last'.p = p /\ last'.kind # "blocked") =>
             /\ last'.calls = AllChecks
             /\ tasks'[p] = Tail(tasks[p])
             /\ ~perr'[p]
      ]_vars

(* C12 amended: a failed claim and a failed chain query of a landing     *)
(* check do not keep the poll from the remaining checks of the record    *)
(* nor from the other records; the failure of the chain head read at the *)
(* start of a record's evaluation does: poll returns the error, and      *)
(* neither this record nor a later one is evaluated in the tick.          *)
C12_OnlyHeadErrorStopsTick ==
    [][ \A p \in Pollers :
          (pc[p] = "records" /\ ~Head(tasks[p]).Failed /\ last' # last
           /\ last'.p = p /\ last'.kind # "blocked") =>
             \/ /\ last'.kind = "record"
                /\ last'.calls = AllChecks
                /\ tasks'[p] = Tail(tasks[p])
                /\ ~perr'[p]
                /\ pc'[p] = IF tasks'[p] = <<>> THEN "returned" ELSE "records"
             \/ /\ last'.kind = "headfailed"
                /\ last'.calls = <<>> /\ last'.claims = {} /\ last'.upd = {}
                /\ rows' = rows
                /\ tasks'[p] = <<>> /\ perr'[p] /\ pc'[p] = "returned"
      ]_vars

(* C12 witness: a claim failed for the first record of a poll, and the   *)
(* poll is at its second record.                                          *)
C12_Witness ==
    /\ last.kind = "record"
    /\ last.errs \cap {"claim", "pci", "si"} # {}
    /\ pc[last.p] = "records"

----------------------------------------------------------------------------
(* the attempt a of the step just taken was persisted: the stage's slots *)
(* hold the id minted for it                                              *)
Persisted(a) == TaskIds(rows'[a.rec], a.stage) = {nextId}

(* C13: a claim is persisted iff its update succeeded and affected one   *)
(* row.  For every claim attempted in a step of poll: if tx.Exec failed  *)
(* or the row count is not 1, the callback's error is logged, the        *)
(* stage's slots are as before and no task id is used up; otherwise the  *)
(* slots hold the new id; and the id counter advances by the number of   *)
(* persisted claims.                                                      *)
C13_PersistedIffOneRow ==
    [][ Evaluated =>
          /\ \A a \in last'.claims :
                /\ Persisted(a) <=> (a.n = 1 /\ ~a.err)
                /\ (a.err \/ a.n # 1) =>
                      /\ TaskIds(rows'[a.rec], a.stage) = TaskIds(rows[a.rec], a.stage)
                      /\ "claim" \in last'.errs
          /\ nextId' = nextId + Cardinality({a \in last'.claims : a.n = 1 /\ ~a.err})
          /\ last'.claims = {} => nextId' = nextId
      ]_vars

(* C13 witness: the update of a claim failed on a slot that is unclaimed, *)
(* and the slot is still unclaimed; the other poller has made a claim.    *)
C13_Witness ==
    /\ \E a \in last.claims : a.err /\ Unclaimed(rows[a.rec], a.stage)
    /\ nextId > 1

----------------------------------------------------------------------------
(* C14: a task id set in a row implies the prerequisite of its stage:    *)
(* tree ids imply after_sdr; the precommit-msg id implies after_tree_d   *)
(* and after_tree_r; the PoRep id implies after_precommit_msg_success    *)
(* and a seed epoch; the commit-msg id implies after_porep and a proof.  *)
C14_PipelineOrder ==
    \A r \in DOMAIN rows :
       LET row == rows[r] IN
       /\ (row.TaskTreeD # Null \/ row.TaskTreeC # Null \/ row.TaskTreeR # Null)
             => row.AfterSDR
       /\ row.TaskPrecommitMsg # Null => row.AfterTreeD /\ row.AfterTreeR
       /\ row.TaskPoRep # Null =>
             row.AfterPrecommitMsgSuccess /\ row.SeedEpoch # NoEpoch
       /\ row.TaskCommitMsg # Null => row.AfterPoRep /\ row.PoRepProof > 0

(* C14 witness: a record has gone through all five claims. *)
C14_Witness ==
    \E r \in DOMAIN rows :
       /\ rows[r].TaskSDR # Null /\ rows[r].TaskTreeD # Null
       /\ rows[r].TaskPrecommitMsg # Null /\ rows[r].TaskPoRep # Null
       /\ rows[r].TaskCommitMsg # Null

(* C15: the three tree slots of a row are all null or all hold the same  *)
(* task id, and the step of poll that claims them writes the one id      *)
(* minted for the claim into the three of them, all three being null     *)
(* before.                                                                *)
C15_TreesTogether ==
    /\ \A r \in DOMAIN rows :
          rows[r].TaskTreeD = rows[r].TaskTreeC /\ rows[r].TaskTreeC = rows[r].TaskTreeR
    /\ \A a \in last.claims :
          (a.stage = pollerTrees /\ a.n = 1 /\ ~a.err) =>
             /\ rows[a.rec].TaskTreeD = nextId - 1
             /\ rows[a.rec].TaskTreeC = nextId - 1
             /\ rows[a.rec].TaskTreeR = nextId - 1
             /\ rows[a.rec].TaskSDR # nextId - 1

(* C15 witness: the trees of a record have just been claimed. *)
C15_Witness ==
    \E a \in last.claims :
       a.stage = pollerTrees /\ a.n = 1 /\ rows[a.rec].TaskTreeR # Null

----------------------------------------------------------------------------
(* C16: the landing of message A is recorded together with its seed      *)
(* epoch.  A step changes the seed epoch of a row only from null, only   *)
(* when message A is executed and its precommit info is on chain, to the *)
(* precommit epoch plus the challenge delay, and sets                    *)
(* after_precommit_msg_success in the same step; the landing update      *)
(* affects a row only if its seed epoch was null; and                    *)
(* after_precommit_msg_success is never set without a seed epoch.         *)
C16_LandingWithSeed ==
    [][ /\ \A r \in DOMAIN rows :
             /\ rows[r].SeedEpoch # NoEpoch => rows'[r].SeedEpoch = rows[r].SeedEpoch
             /\ rows'[r].AfterPrecommitMsgSuccess <=> rows'[r].SeedEpoch # NoEpoch
             /\ rows'[r].SeedEpoch # rows[r].SeedEpoch =>
                   /\ execA[r] /\ pciEpoch[r] # NoEpoch
                   /\ rows'[r].SeedEpoch = pciEpoch[r] + ChallengeDelay
                   /\ [rec |-> r, msg |-> "A"] \in last'.upd
        /\ Evaluated =>
             \A u \in last'.upd :
                u.msg = "A" => /\ rows[u.rec].SeedEpoch = NoEpoch
                               /\ ~rows[u.rec].AfterPrecommitMsgSuccess
                               /\ rows'[u.rec].SeedEpoch # NoEpoch
      ]_vars

(* C16 witness: a poller that loaded the row before the landing was      *)
(* recorded has made the landing check after it, and the seed epoch is   *)
(* the one recorded first.                                                *)
C16_Witness ==
    /\ last.kind = "record"
    /\ last.seed = NoEpoch
    /\ "StateSectorPreCommitInfo" \in last.api
    /\ last.upd = {}
    /\ rows[last.rec].AfterPrecommitMsgSuccess
    /\ rows[last.rec].SeedEpoch = pciEpoch[last.rec] + ChallengeDelay

----------------------------------------------------------------------------
(* message A of the loaded row is executed, its precommit info is not on chain *)
MissingA(task) ==
    /\ task.TaskPrecommitMsg # Null /\ ~task.AfterPrecommitMsgSuccess
    /\ execA[task.SectorNumber] /\ pciEpoch[task.SectorNumber] = NoEpoch

(* message B of the loaded row is executed, its sector info is not on chain *)
MissingB(task) ==
    /\ task.AfterCommitMsg /\ ~task.AfterCommitMsgSuccess /\ handles[pollerCommitMsg]
    /\ execB[task.SectorNumber] /\ ~si[task.SectorNumber]

(* C17: missing authoritative state leaves the record untouched.  When   *)
(* the evaluation of a record finds its message executed and the         *)
(* precommit info (message A) or the sector info (message B) absent, it  *)
(* makes the chain query and nothing else: no row changes (no landing    *)
(* flag, no failed flag, no task id), no id is minted, no claim is       *)
(* attempted; so the next poll loads the row as it was and finds the     *)
(* same.                                                                  *)
C17_MissingStateUntouched ==
    [][ \A p \in Pollers :
          (pc[p] \in {"records", "blocked"} /\ tasks'[p] # tasks[p]
           /\ last'.kind \in {"record", "resumed"}) =>
             LET task == Head(tasks[p]) IN
             /\ MissingA(task) =>
                   /\ rows' = rows /\ nextId' = nextId
                   /\ last'.claims = {} /\ last'.upd = {} /\ last'.errs = {}
                   /\ "StateSectorPreCommitInfo" \in last'.api
             /\ MissingB(task) =>
                   /\ rows' = rows /\ nextId' = nextId
                   /\ last'.claims = {} /\ last'.upd = {} /\ last'.errs = {}
                   /\ "StateSectorGetInfo" \in last'.api
      ]_vars

(* C17 witness: a poll has found message A of a record executed without  *)
(* precommit info, the other record having been claimed as well.          *)
C17_Witness ==
    /\ last.kind = "record"
    /\ "StateSectorPreCommitInfo" \in last.api
    /\ execA[last.rec] /\ pciEpoch[last.rec] = NoEpoch
    /\ ~rows[last.rec].AfterPrecommitMsgSuccess /\ ~rows[last.rec].Failed
    /\ rows[last.rec].TaskPrecommitMsg # Null
    /\ nextId > 4

----------------------------------------------------------------------------
(* the evaluation of the record loaded as Head(tasks[p]) has been finished *)
(* by this step                                                           *)
EvaluatedBy(p) ==
    /\ pc[p] \in {"records", "blocked"}
    /\ tasks'[p] # tasks[p]
    /\ last'.kind \in {"record", "resumed"}

(* C18 as claimed: the message-B landing check is made exactly for the   *)
(* records loaded with the commit-msg task id set and                    *)
(* after_commit_msg_success false, as the message-A check is made        *)
(* exactly for those with the precommit-msg task id set and              *)
(* after_precommit_msg_success false.                                     *)
C18_SameTrigger ==
    [][ \A p \in Pollers :
          EvaluatedBy(p) =>
             LET task == Head(tasks[p]) IN
             /\ "message_waits A" \in last'.api <=>
                   (task.TaskPrecommitMsg # Null /\ ~task.AfterPrecommitMsgSuccess)
             /\ "message_waits B" \in last'.api <=>
                   (task.TaskCommitMsg # Null /\ ~task.AfterCommitMsgSuccess)
      ]_vars

(* C18 amended: the message-B landing check is made exactly for the      *)
(* records loaded with after_commit_msg true and                         *)
(* after_commit_msg_success false, and only once the handle of the       *)
(* commit-msg stage is set; a record whose commit-msg task is claimed    *)
(* and has not yet submitted the message is not checked.  When the check *)
(* finds message B executed and the sector info on chain it sets         *)
(* after_commit_msg_success, and nothing else sets it.                    *)
C18_TriggerAfterSubmission ==
    [][ /\ \A p \in Pollers :
             EvaluatedBy(p) =>
                LET task == Head(tasks[p])
                    r == task.SectorNumber
                IN
                /\ "message_waits A" \in last'.api <=>
                      (task.TaskPrecommitMsg # Null /\ ~task.AfterPrecommitMsgSuccess)
                /\ "message_waits B" \in last'.api <=>
                      (task.AfterCommitMsg /\ ~task.AfterCommitMsgSuccess
                       /\ handles[pollerCommitMsg])
                /\ ("message_waits B" \in last'.api /\ execB[r] /\ si[r]
                    /\ last'.errs = {}) => rows'[r].AfterCommitMsgSuccess
        /\ \A r \in DOMAIN rows :
             rows'[r].AfterCommitMsgSuccess # rows[r].AfterCommitMsgSuccess =>
                /\ rows'[r].AfterCommitMsgSuccess
                /\ execB[r] /\ si[r]
                /\ [rec |-> r, msg |-> "B"] \in last'.upd
      ]_vars

(* C18 witness: a record whose commit-msg task is claimed and has not    *)
(* submitted the message has been evaluated without the message-B check, *)
(* while the message-A check is no longer due for it.                     *)
C18_Witness ==
    /\ last.kind = "record"
    /\ last.claims = {}
    /\ rows[last.rec].TaskCommitMsg # Null
    /\ ~rows[last.rec].AfterCommitMsg
    /\ "message_waits B" \notin last.api

----------------------------------------------------------------------------
(* the number of times request t is in a window's Todo list *)
InTodo(t, w) == Cardinality({i \in DOMAIN todo[w] : todo[w][i] = t})

Queued(t) == \E i \in DOMAIN queue : queue[i] = t

RECURSIVE TodoTotal(_)
TodoTotal(W) ==
    IF W = {} THEN 0
    ELSE LET w == CHOOSE x \in W : TRUE IN Len(todo[w]) + TodoTotal(W \ {w})

----------------------------------------------------------------------------
(* The verdict of the admission test on the i-th acceptable window of    *)
(* request t, as the scan reaches it in a pass that has placed nothing.  *)
Verdict(t, i) ==
    LET aw  == sched.accept[t]
        wa  == [w \in Workers |-> 0]
        st  == Scan(ScanStart, t, SubSeq(aw, 1, i - 1), wa)
        wid == sched.owner[aw[i]]
    IN CanHandleRequest(sched.alloc[aw[i]], ResourceSpec(InfoUsed(st, wid), t),
                        InfoUsed(st, wid))

(* C20 as claimed: the admission test of a candidate window is that of   *)
(* the window's own worker on the window's allocation, whatever          *)
(* candidates the scan has examined or selected before it.                *)
C20_TestOfTheCandidate ==
    apc = "done" =>
        \A t \in Requests : \A i \in DOMAIN sched.accept[t] :
            Verdict(t, i) = Feasible(t, sched.accept[t][i])

----------------------------------------------------------------------------
(* Progress of one sector.  The environment of the poller is the one the  *)
(* pipeline is promised: the sector is never marked failed, every handle  *)
(* is registered at some time, every claimed task is completed, every     *)
(* message is executed with its on-chain state present, and the chain     *)
(* advances as far as a seed epoch that is waited for requires.           *)

(* The height the PoRep gate of sector r opens at, once precommit info    *)
(* of r is on chain.                                                      *)
GateOf(r) == pciEpoch[r] + ChallengeDelay + seedEpochConfidence

(* The chain advances: up to MaxHeight freely, and past it as long as a   *)
(* gate that is still closed lies ahead.                                  *)
AdvanceHeightLive ==
    /\ \/ height < MaxHeight
       \/ \E r \in DOMAIN rows : pciEpoch[r] # NoEpoch /\ height < GateOf(r)
    /\ height' = height + 1
    /\ Changed
    /\ UNCHANGED <<rows, execA, pciEpoch, execB, si, handles, cancelled>>

(* Message A of sector r is executed and its precommit info is on chain. *)
ConfirmALive(r) ==
    /\ Live(r) /\ rows[r].AfterPrecommitMsg /\ ~execA[r]
    /\ execA' = [execA EXCEPT ![r] = TRUE]
    /\ pciEpoch' = [pciEpoch EXCEPT ![r] = height]
    /\ Changed
    /\ UNCHANGED <<rows, execB, si, height, handles, cancelled>>

InitLive ==
    /\ rows = [r \in {1} |-> NewRow(r)]
    /\ handles = [i \in Stages |-> FALSE]
    /\ pc = [p \in Pollers |-> IF p = 1 THEN "select" ELSE "off"]
    /\ faults = FALSE
    /\ InitCommon

(* The steps of the environment. *)
Environment ==
    \/ \E i \in Stages : SetHandle(i)
    \/ AdvanceHeightLive
    \/ \E r \in DOMAIN rows : CompleteSDR(r)
    \/ \E r \in DOMAIN rows : CompleteTrees(r)
    \/ \E r \in DOMAIN rows : CompletePrecommitMsg(r)
    \/ \E r \in DOMAIN rows : ConfirmALive(r)
    \/ \E r \in DOMAIN rows : CompletePoRep(r)
    \/ \E r \in DOMAIN rows : CompleteCommitMsg(r)
    \/ \E r \in DOMAIN rows : ConfirmB(r, TRUE)

NextLive ==
    \/ \E p \in Pollers : Tick(p)
    \/ \E p \in Pollers : RecordStep(p)
    \/ \E p \in Pollers : ValReturns(p)
    \/ \E p \in Pollers : Return(p)
    \/ Environment

(* The ticker of RunPoller fires and a started poll runs on. *)
FairPoller ==
    \A p \in Pollers :
        /\ WF_vars(Tick(p))
        /\ WF_vars(RecordStep(p))
        /\ WF_vars(ValReturns(p))
        /\ WF_vars(Return(p))

(* What the pipeline is promised of its environment.  The promise is of  *)
(* the event itself, which a poll that is reporting its result only      *)
(* delays: if a step of the environment is possible again and again, one *)
(* is taken.  Each of them can be taken a bounded number of times, so    *)
(* every one that stays possible is taken in the end.                    *)
FairEnvironment == SF_vars(Environment)

SpecLive == InitLive /\ [][NextLive]_vars /\ FairPoller /\ FairEnvironment

(* The five task ids of a row are set and pairwise different. *)
ClaimedOnceEach(row) ==
    /\ \A i \in Stages : Cardinality(TaskIds(row, i)) = 1 /\ Null \notin TaskIds(row, i)
    /\ \A i, j \in Stages : i # j => TaskIds(row, i) \cap TaskIds(row, j) = {}

(* C21: a sector that is not marked failed, in the promised environment   *)
(* and under fair ticking, eventually reaches terminal success            *)
(* (after_commit_msg_success), with each of the five stages claimed       *)
(* exactly once: five task ids minted in all, one per stage.              *)
C21_Progress ==
    <>[](/\ rows[1].AfterCommitMsgSuccess
         /\ ClaimedOnceEach(rows[1])
         /\ nextId = numPollers + 1)

(* C21 witness: the sector is at terminal success, its landing update of *)
(* message B made by a poll after the PoRep gate opened past MaxHeight.  *)
C21_Witness ==
    /\ rows[1].AfterCommitMsgSuccess
    /\ ClaimedOnceEach(rows[1])
    /\ nextId = numPollers + 1
    /\ last.kind = "record" /\ [rec |-> 1, msg |-> "B"] \in last.upd
    /\ GateOf(1) > MaxHeight

====
